---- MODULE Spec2Model ----
(***************************************************************************)
(* Feed import engine of django-vidscraper (djvidscraper/models.py).       *)
(*                                                                         *)
(* State: the database tables Feed, FeedImport, FeedImportStep, Video and  *)
(* FeedImportIdentifier, plus, for every FeedImport, the in-memory model   *)
(* instance that FeedImport.run works on and the position of run in its    *)
(* code.  One action per statement of run that touches the database or can *)
(* raise.                                                                  *)
(*                                                                         *)
(* Failure model: the calls that reach outside the process or build and    *)
(* write a Video can raise (get_iterator / load / update_metadata, the     *)
(* iterator, vidscraper_video.load, is_seen, from_vidscraper_video,        *)
(* clean_fields / validate_unique, video.save, video.save_m2m, mark_seen). *)
(* The audit writes of the exception handlers themselves (record_step,     *)
(* FeedImport.save, video.delete) are taken to succeed: were they to       *)
(* raise, run has no handler left and the process crashes.                 *)
(***************************************************************************)
EXTENDS Integers, Sequences, FiniteSets, TLC

\* ------------------------------------------------------------------ bounds
\* FeedImports started in total.
MaxRuns == 2
\* Remote records yielded by the iterators of all runs together.
MaxItems == 2
\* Exceptions raised in all runs together.
MaxRaised == 1
\* Rows of FeedImportIdentifier at which direct calls of mark_seen stop.
MaxRows == 3
\* Video rows at which direct calls of from_vidscraper_video stop.
MaxVideos == 1
\* The latest time the clock reaches in them.
MaxNow == 2

\* --------------------------------------------------------------- constants
\* FeedImportStep.step_type
IMPORT_ERRORED == "import errored"
VIDEO_SEEN == "video seen"
VIDEO_INVALID == "video invalid"
VIDEO_ERRORED == "video errored"
VIDEO_IMPORTED == "video imported"

\* Video.status
UNPUBLISHED == "unpublished"
NEEDS_MODERATION == "needs moderation"
PUBLISHED == "published"
HIDDEN == "hidden"

\* Python's None / SQL NULL for strings, and for row ids and timestamps.
None == "<None>"
NULL == 0

\* ------------------------------------------------------- remote records
\* A vidscraper video file: its url and whether it expires.
File(url, expires) == [url |-> url, expires |-> expires]

\* vidscraper_video.files: a list of Files, or None.
Files(list) == [is_none |-> FALSE, list |-> list]
NoFiles == [is_none |-> TRUE, list |-> << >>]

\* A vidscraper video, reduced to the attributes the import reads to
\* identify it.
RemoteVideo(guid, link, flash, embed, files) ==
    [guid |-> guid, link |-> link, flash_enclosure_url |-> flash,
     embed_code |-> embed, files |-> files]

\* The records a feed can yield:
\*   one identified by its guid alone,
\*   one with a guid of its own and a non-expiring file whose url is the
\*   first one's guid,
\*   one with nothing to identify it (its only file expires).
RemoteVideos ==
    { RemoteVideo("a", "", None, "", NoFiles),
      RemoteVideo("b", None, "", "",
                  Files(<< File("x", TRUE), File("a", FALSE) >>)),
      RemoteVideo(None, "", "", "", Files(<< File("y", TRUE) >>)) }

\* ------------------------------------------------------------------- state
VARIABLES
    feeds,        \* Feed rows: feed name -> row
    source,       \* what the remote side serves for each feed: the header
                  \* attributes of the iterator vidscraper.auto_feed returns
    receivers,    \* responses of the receivers connected to
                  \* pre_feed_import_publish, in connection order
    imports,      \* FeedImport: sequence, pk = index; each holds the model
                  \* instance run() works on and the stored row (db)
    steps,        \* FeedImportStep rows, in insertion order
    videos,       \* Video rows (a set of records with an id)
    identifiers,  \* FeedImportIdentifier rows, in insertion order
    sent,         \* signals broadcast by run: sequence of records
    yielded,      \* number of records the iterators have yielded in all
    now,          \* django.utils.timezone.now()
    answer        \* what the latest direct call of is_seen or of
                  \* from_vidscraper_video returned, if any

vars == << feeds, source, receivers, imports, steps, videos, identifiers,
           sent, yielded, now, answer >>

Feeds == {"f1", "f2"}

Range(s) == { s[k] : k \in 1..Len(s) }

\* --------------------------------------------------- identifier hashes
\* Mutation of Truthy: only None is skipped.
Truthy_NotNone(i) == i # None

\* Python truthiness of an identifier: None and '' are skipped.
Truthy(i) == i # None /\ i # ""

\* hashlib.sha1(i).hexdigest(): a digest, taken to be free of collisions.
sha1(i) == << "sha1", i >>

NotExpires(f) == ~f.expires
\* [f.url for f in ...]
FileUrls(files) == [ k \in 1..Len(files) |-> files[k].url ]
\* [sha1(i).hexdigest() for i in ...]
Hashes(ids) == [ k \in 1..Len(ids) |-> sha1(ids[k]) ]

\* Mutation of get_identifier_hashes: the guid alone identifies a record.
get_identifier_hashes_GuidOnly(vidscraper_video) ==
    Hashes(SelectSeq(<< vidscraper_video.guid >>, Truthy))

\* FeedImport._get_identifier_hashes
get_identifier_hashes(vidscraper_video) ==
    LET fixed == << vidscraper_video.guid, vidscraper_video.link,
                    vidscraper_video.flash_enclosure_url,
                    vidscraper_video.embed_code >>
        ids == IF ~vidscraper_video.files.is_none
               THEN fixed \o FileUrls(SelectSeq(vidscraper_video.files.list,
                                                NotExpires))
               ELSE fixed
    IN  Hashes(SelectSeq(ids, Truthy))

\* Mutation of ExistsIdentifier: the feed is left out of the filter.
ExistsIdentifier_AnyFeed(table, feed, hashes) ==
    \E k \in 1..Len(table) : table[k].identifier_hash \in Range(hashes)

\* Mutation of ExistsIdentifier: exactly one row has to match.
ExistsIdentifier_Unique(table, feed, hashes) ==
    Cardinality({ k \in 1..Len(table) :
                    /\ table[k].feed = feed
                    /\ table[k].identifier_hash \in Range(hashes) }) = 1

\* FeedImportIdentifier.objects.filter(feed=..., identifier_hash__in=...)
\* .exists() on the table given.
ExistsIdentifier(table, feed, hashes) ==
    \E k \in 1..Len(table) :
        /\ table[k].feed = feed
        /\ table[k].identifier_hash \in Range(hashes)

\* FeedImport.is_seen, on the table given.
is_seen(table, feed, vidscraper_video) ==
    LET hashes == get_identifier_hashes(vidscraper_video)
    IN  IF hashes = << >> THEN FALSE
        ELSE ExistsIdentifier(table, feed, hashes)

IdentifierRow(feed, identifier_hash) ==
    [feed |-> feed, identifier_hash |-> identifier_hash]

\* Mutation of mark_seen: only the first hash is recorded.
mark_seen_FirstOnly(feed, vidscraper_video) ==
    LET hashes == get_identifier_hashes(vidscraper_video)
    IN  [ k \in 1..(IF Len(hashes) > 0 THEN 1 ELSE 0) |->
            [feed |-> feed, identifier_hash |-> hashes[k]] ]

\* FeedImport.mark_seen: the rows it creates, in order.
mark_seen(feed, vidscraper_video) ==
    LET hashes == get_identifier_hashes(vidscraper_video)
    IN  [ k \in 1..Len(hashes) |-> IdentifierRow(feed, hashes[k]) ]

\* ------------------------------------------------------------------ Feed
\* Feed.update_metadata: the Feed row after it.  Every attribute it changes
\* it also saves; external_url is no field of Feed, so web_url is not
\* touched.
update_metadata(feed, iterator) ==
    LET etag == IF Truthy(iterator.etag) THEN iterator.etag ELSE ""
        f1 == IF etag # "" /\ etag # feed.external_etag
              THEN [feed EXCEPT !.external_etag = etag] ELSE feed
        f2 == IF iterator.last_modified # NULL
              THEN [f1 EXCEPT !.external_last_modified = iterator.last_modified]
              ELSE f1
    IN  IF f2.should_update_metadata
        THEN [f2 EXCEPT !.name = IF Truthy(iterator.title)
                                 THEN iterator.title ELSE feed.original_url,
                        !.description = IF Truthy(iterator.description)
                                        THEN iterator.description ELSE "",
                        !.should_update_metadata = FALSE]
        ELSE f2

\* Feed.update_metadata, the flag 'save': whether self.save() is called.
update_metadata_save(feed, iterator) ==
    LET etag == IF Truthy(iterator.etag) THEN iterator.etag ELSE ""
    IN  \/ etag # "" /\ etag # feed.external_etag
        \/ iterator.last_modified # NULL
        \/ feed.should_update_metadata

\* A Feed row as the model's defaults and the operator's settings make it.
NewFeed(url, stop_if_seen, moderate) ==
    [original_url |-> url, name |-> "", description |-> "", web_url |-> "",
     stop_if_seen |-> stop_if_seen, moderate_imported_videos |-> moderate,
     should_update_metadata |-> TRUE,
     external_etag |-> "", external_last_modified |-> NULL]

\* The iterator's header attributes after load().
IteratorHeader(etag, last_modified, title, webpage, description) ==
    [etag |-> etag, last_modified |-> last_modified, title |-> title,
     webpage |-> webpage, description |-> description]

\* ----------------------------------------------------------------- Video
\* Mutation of from_vidscraper_video: published_datetime is always set.
from_vidscraper_video_Stamped(video, status, feed) ==
    [id |-> NULL, feed |-> feed,
     status |-> IF status = None THEN NEEDS_MODERATION ELSE status,
     published_datetime |-> now, item |-> video, m2m_saved |-> FALSE]

\* Video.from_vidscraper_video(video, status=status, commit=False, feed=feed):
\* the unsaved instance.  item remembers the remote record it was built
\* from; m2m_saved says whether its save_m2m() has completed.
from_vidscraper_video(video, status, feed) ==
    LET st == IF status = None THEN NEEDS_MODERATION ELSE status
    IN  [id |-> NULL, feed |-> feed, status |-> st,
         published_datetime |-> IF st = PUBLISHED THEN now ELSE NULL,
         item |-> video, m2m_saved |-> FALSE]

\* The pk the database gives the next Video row.
NextVideoId ==
    LET used == { v.id : v \in videos }
    IN  IF used = {} THEN 1
        ELSE 1 + CHOOSE m \in used : \A x \in used : x <= m

\* Mutation of VideosWithout: video.delete() is left out.
VideosWithout_Kept(id) == videos

\* Video.delete(): the row goes; a FeedImportStep that points at it has
\* its video set to NULL (on_delete=SET_NULL).
VideosWithout(id) == { v \in videos : v.id # id }
\* Mutation of StepsWithout: the steps keep pointing at the deleted row.
StepsWithout_Dangling(id) == steps
StepsWithout(id) ==
    [ k \in 1..Len(steps) |->
        IF steps[k].video = id THEN [steps[k] EXCEPT !.video = NULL]
        ELSE steps[k] ]

\* ------------------------------------------------------------ FeedImport
\* FeedImport() as Feed.start_import saves it, about to call run().
\* position counts the records its iterator has yielded.
NewImport(feed) ==
    [feed |-> feed, pc |-> "get_iterator",
     is_complete |-> FALSE, error_count |-> 0, import_count |-> 0,
     db |-> [is_complete |-> FALSE, error_count |-> 0, import_count |-> 0,
             modified_timestamp |-> now],
     position |-> 0, vidscraper_video |-> << >>, video |-> << >>]

\* Mutation of save: only is_complete is stored.
save_FlagOnly(imp) ==
    [imp EXCEPT !.db = [@ EXCEPT !.is_complete = imp.is_complete,
                                 !.modified_timestamp = now]]

\* FeedImport.save(): the stored row takes the instance's values, and
\* modified_timestamp (auto_now) the time of the call.
save(imp) ==
    [imp EXCEPT !.db = [is_complete |-> imp.is_complete,
                        error_count |-> imp.error_count,
                        import_count |-> imp.import_count,
                        modified_timestamp |-> now]]

\* Mutation of Counted: import-level errors are not counted.
Counted_VideoErrorsOnly(imp, step_type) ==
    [imp EXCEPT
        !.error_count = IF step_type = "video errored" THEN @ + 1 ELSE @,
        !.import_count = IF step_type = "video imported" THEN @ + 1 ELSE @]

\* Mutation of Counted: an invalid video counts as an error.
Counted_InvalidCounts(imp, step_type) ==
    [imp EXCEPT
        !.error_count = IF step_type \in {VIDEO_ERRORED, IMPORT_ERRORED,
                                          VIDEO_INVALID}
                        THEN @ + 1 ELSE @,
        !.import_count = IF step_type = VIDEO_IMPORTED THEN @ + 1 ELSE @]

\* FeedImport.record_step, the counters.
Counted(imp, step_type) ==
    [imp EXCEPT
        !.error_count = IF step_type \in {VIDEO_ERRORED, IMPORT_ERRORED}
                        THEN @ + 1 ELSE @,
        !.import_count = IF step_type = VIDEO_IMPORTED THEN @ + 1 ELSE @]

\* traceback.format_exc(), reduced to the statement of run that raised.
format_exc(imp) == imp.pc

\* FeedImport.record_step, the row of self.steps.create.
StepRow(i, step_type, video, tb) ==
    [feed_import |-> i, step_type |-> step_type, video |-> video,
     traceback |-> tb]

\* FeedImport.record_step on import i, appending to the step table given:
\* the instance with its counter incremented, and the table with the row.
record_step(i, table, step_type, video, with_traceback) ==
    [instance |-> Counted(imports[i], step_type),
     steps |-> Append(table,
                      StepRow(i, step_type, video,
                              IF with_traceback THEN format_exc(imports[i])
                              ELSE ""))]

Goto(imp, pc) == [imp EXCEPT !.pc = pc]

\* Every exception raised in run leaves one step of these types, so the
\* steps count the exceptions raised so far.
RaisedTypes == {IMPORT_ERRORED, VIDEO_ERRORED, VIDEO_INVALID}
Raised == Cardinality({ k \in 1..Len(steps) : steps[k].step_type \in RaisedTypes })
CanRaise == Raised < MaxRaised

At(i, pc) == i \in 1..Len(imports) /\ imports[i].pc = pc

Feed(i) == feeds[imports[i].feed]
Item(i) == imports[i].vidscraper_video[1]

\* Mutation of StepVideos: every Video with the status, whatever made it.
StepVideos_AnyImport(i, status) == { v \in videos : v.status = status }

\* Video.objects.filter(feedimportstep__feed_import=i, status=status)
StepVideos(i, status) ==
    { v \in videos :
        /\ v.status = status
        /\ \E k \in 1..Len(steps) :
              steps[k].feed_import = i /\ steps[k].video = v.id }

\* queryset.update(status=status) on the rows qs.
UpdateStatus(qs, status) ==
    { IF v \in qs THEN [v EXCEPT !.status = status] ELSE v : v \in videos }

Signal(name, sender, qs) ==
    [signal |-> name, sender |-> sender, videos |-> { v.id : v \in qs }]

\* --------------------------------------------------------------- actions
\* Feed.start_import: imp = FeedImport(); imp.feed = self; imp.save();
\* run() then starts at its first statement.
start_import(f) ==
    /\ Len(imports) < MaxRuns
    /\ imports' = Append(imports, NewImport(f))
    /\ UNCHANGED << feeds, source, receivers, steps, videos, identifiers,
                    sent, yielded, now, answer >>

\* run, lines 87-90: the iterator opens, loads, and the feed's metadata is
\* updated.
OpenFeed(i) ==
    /\ At(i, "get_iterator")
    /\ feeds' = [feeds EXCEPT ![imports[i].feed] =
                     update_metadata(@, source[imports[i].feed])]
    /\ imports' = [imports EXCEPT ![i].pc = "next"]
    /\ UNCHANGED << source, receivers, steps, videos, identifiers, sent,
                    yielded, now, answer >>

\* run, line 94
Return(imp) == Goto(imp, "returned")

\* Mutation of LeaveLoop: run returns where the loop ends.
LeaveLoop_Returns(imp) == Goto(imp, "returned")

\* The loop of run is left, by exhaustion, break or an exception of the
\* iterator.
LeaveLoop(imp) == Goto(imp, "publish")

\* run, lines 91-94: one of the three raises; the step is recorded and run
\* returns.
OpenFeedFails(i) ==
    /\ CanRaise
    /\ At(i, "get_iterator")
    /\ (LET recorded == record_step(i, steps, IMPORT_ERRORED, NULL, TRUE)
        IN  imports' = [imports EXCEPT ![i] = Return(recorded.instance)]
            /\ steps' = recorded.steps)
    /\ UNCHANGED << feeds, source, receivers, videos, identifiers, sent,
                    yielded, now, answer >>

\* run, line 97: the iterator yields the next record, which it has fetched
\* from the remote side in the meantime.
IterYield(i) ==
    /\ At(i, "next")
    /\ yielded < MaxItems
    /\ \E r \in RemoteVideos :
          imports' = [imports EXCEPT ![i].pc = "load",
                                     ![i].position = @ + 1,
                                     ![i].vidscraper_video = << r >>]
    /\ yielded' = yielded + 1
    /\ now' = now + 1
    /\ UNCHANGED << feeds, source, receivers, steps, videos, identifiers,
                    sent, answer >>

\* run, line 97: the iterator is exhausted.
IterStop(i) ==
    /\ At(i, "next")
    /\ imports' = [imports EXCEPT ![i] = LeaveLoop(@)]
    /\ UNCHANGED << feeds, source, receivers, steps, videos, identifiers,
                    sent, yielded, now, answer >>

\* Mutation of IterRaises: the loop goes on after the step is recorded.
IterRaises_Continues(i) ==
    /\ CanRaise
    /\ At(i, "next")
    /\ (LET recorded == record_step(i, steps, IMPORT_ERRORED, NULL, TRUE)
        IN  imports' = [imports EXCEPT ![i] = recorded.instance]
            /\ steps' = recorded.steps)
    /\ UNCHANGED << feeds, source, receivers, videos, identifiers, sent,
                    yielded, now, answer >>

\* run, lines 138-140: the iterator raises.
IterRaises(i) ==
    /\ CanRaise
    /\ At(i, "next")
    /\ (LET recorded == record_step(i, steps, IMPORT_ERRORED, NULL, TRUE)
        IN  imports' = [imports EXCEPT ![i] = LeaveLoop(recorded.instance)]
            /\ steps' = recorded.steps)
    /\ UNCHANGED << feeds, source, receivers, videos, identifiers, sent,
                    yielded, now, answer >>

\* Mutation of NextPass: the pass that ends is the last one.
NextPass_Last(imp) ==
    save([imp EXCEPT !.pc = "publish", !.vidscraper_video = << >>,
                     !.video = << >>])

\* The end of one pass of the loop body, line 137: self.save(), and on to
\* the next record.
NextPass(imp) ==
    save([imp EXCEPT !.pc = "next", !.vidscraper_video = << >>,
                     !.video = << >>])

\* Mutation of Break: the loop goes on after a seen record.
Break_Continues(imp) == Goto([imp EXCEPT !.vidscraper_video = << >>], "next")

\* run, lines 103 and 105: break and continue, both of which pass over
\* self.save() of line 137.
Break(imp) == LeaveLoop([imp EXCEPT !.vidscraper_video = << >>])
Continue(imp) == Goto([imp EXCEPT !.vidscraper_video = << >>], "next")

\* run, lines 99-105: the record loads and is looked up.
CheckSeen(i) ==
    /\ At(i, "load")
    /\ IF is_seen(identifiers, imports[i].feed, Item(i))
       THEN IF Feed(i).stop_if_seen
            THEN (LET recorded == record_step(i, steps, VIDEO_SEEN, NULL,
                                               FALSE)
                  IN  imports' = [imports EXCEPT
                                     ![i] = Break(recorded.instance)]
                      /\ steps' = recorded.steps)
            ELSE (LET recorded == record_step(i, steps, VIDEO_SEEN, NULL,
                                               FALSE)
                  IN  imports' = [imports EXCEPT
                                     ![i] = Continue(recorded.instance)]
                      /\ steps' = recorded.steps)
       ELSE /\ imports' = [imports EXCEPT ![i].pc = "build"]
            /\ UNCHANGED steps
    /\ UNCHANGED << feeds, source, receivers, videos, identifiers, sent,
                    yielded, now, answer >>

\* Mutation of Built: the instance is built as 'published'.
Built_Published(imp) ==
    [imp EXCEPT !.pc = "save",
                !.video = << from_vidscraper_video(imp.vidscraper_video[1],
                                                   PUBLISHED, imp.feed) >>]

\* run, lines 106-115: the instance built for the record in hand.
Built(imp) ==
    [imp EXCEPT !.pc = "save",
                !.video = << from_vidscraper_video(imp.vidscraper_video[1],
                                                   UNPUBLISHED, imp.feed) >>]

\* run, lines 106-118: the Video is built and is valid.
Build(i) ==
    /\ At(i, "build")
    /\ imports' = [imports EXCEPT ![i] = Built(@)]
    /\ UNCHANGED << feeds, source, receivers, steps, videos, identifiers,
                    sent, yielded, now, answer >>

\* run, lines 106-121: the Video is built, clean_fields or validate_unique
\* raises ValidationError; the step is recorded and run goes on to save
\* the row.
BuildInvalid(i) ==
    /\ CanRaise
    /\ At(i, "build")
    /\ (LET recorded == record_step(i, steps, VIDEO_INVALID, NULL, TRUE)
        IN  imports' = [imports EXCEPT ![i] = Built(recorded.instance)]
            /\ steps' = recorded.steps)
    /\ UNCHANGED << feeds, source, receivers, videos, identifiers, sent,
                    yielded, now, answer >>

\* Mutation of SaveVideo: the record is marked seen as soon as the row is
\* saved.
SaveVideo_MarksSeen(i) ==
    /\ At(i, "save")
    /\ LET row == [imports[i].video[1] EXCEPT !.id = NextVideoId]
       IN  /\ videos' = videos \cup { row }
           /\ imports' = [imports EXCEPT ![i].pc = "save_m2m",
                                         ![i].video = << row >>]
    /\ identifiers' = identifiers \o mark_seen(imports[i].feed, Item(i))
    /\ UNCHANGED << feeds, source, receivers, steps, sent, yielded, now,
                    answer >>

\* run, line 123: video.save()
SaveVideo(i) ==
    /\ At(i, "save")
    /\ LET row == [imports[i].video[1] EXCEPT !.id = NextVideoId]
       IN  /\ videos' = videos \cup { row }
           /\ imports' = [imports EXCEPT ![i].pc = "save_m2m",
                                         ![i].video = << row >>]
    /\ UNCHANGED << feeds, source, receivers, steps, identifiers, sent,
                    yielded, now, answer >>

\* run, line 125: video.save_m2m() completes.
SaveM2M(i) ==
    /\ At(i, "save_m2m")
    /\ videos' = { IF v.id = imports[i].video[1].id
                   THEN [v EXCEPT !.m2m_saved = TRUE] ELSE v : v \in videos }
    /\ imports' = [imports EXCEPT ![i].pc = "mark_seen"]
    /\ UNCHANGED << feeds, source, receivers, steps, identifiers, sent,
                    yielded, now, answer >>

\* run, lines 126-128 and 132-137: save_m2m raises; the row is deleted,
\* the exception re-raised and recorded.
SaveM2MFails(i) ==
    /\ CanRaise
    /\ At(i, "save_m2m")
    /\ videos' = VideosWithout(imports[i].video[1].id)
    /\ (LET recorded == record_step(i, StepsWithout(imports[i].video[1].id),
                                    VIDEO_ERRORED, NULL, TRUE)
        IN  imports' = [imports EXCEPT ![i] = NextPass(recorded.instance)]
            /\ steps' = recorded.steps)
    /\ UNCHANGED << feeds, source, receivers, identifiers, sent, yielded,
                    now, answer >>

\* run, lines 129-131 and 137: the record is marked seen and the step
\* recorded.
MarkSeen(i) ==
    /\ At(i, "mark_seen")
    /\ identifiers' = identifiers \o mark_seen(imports[i].feed, Item(i))
    /\ (LET recorded == record_step(i, steps, VIDEO_IMPORTED,
                                    imports[i].video[1].id, FALSE)
        IN  imports' = [imports EXCEPT ![i] = NextPass(recorded.instance)]
            /\ steps' = recorded.steps)
    /\ UNCHANGED << feeds, source, receivers, videos, sent, yielded, now, answer >>

\* run, lines 129 and 132-137: mark_seen raises, having created the first
\* n of its rows.
MarkSeenFails(i) ==
    /\ CanRaise
    /\ At(i, "mark_seen")
    /\ LET rows == mark_seen(imports[i].feed, Item(i))
       IN  \E n \in 0..Len(rows) :
              /\ n < Len(rows) \/ n = 0
              /\ identifiers' = identifiers \o SubSeq(rows, 1, n)
    /\ (LET recorded == record_step(i, steps, VIDEO_ERRORED, NULL, TRUE)
        IN  imports' = [imports EXCEPT ![i] = NextPass(recorded.instance)]
            /\ steps' = recorded.steps)
    /\ UNCHANGED << feeds, source, receivers, videos, sent, yielded, now, answer >>

\* Where a statement of the item's try block can raise without having
\* written anything: load or is_seen, from_vidscraper_video or the
\* validation (other than by ValidationError), video.save.
FailPoints == {"load", "build", "save"}

\* run, lines 132-137: one of them raises.
ItemFails(i) ==
    /\ CanRaise
    /\ i \in 1..Len(imports)
    /\ imports[i].pc \in FailPoints
    /\ (LET recorded == record_step(i, steps, VIDEO_ERRORED, NULL, TRUE)
        IN  imports' = [imports EXCEPT ![i] = NextPass(recorded.instance)]
            /\ steps' = recorded.steps)
    /\ UNCHANGED << feeds, source, receivers, videos, identifiers, sent,
                    yielded, now, answer >>

\* Mutation of ShouldPublish: the feed's setting is not consulted.
ShouldPublish_Always(feed) == TRUE

\* run, line 143
ShouldPublish(feed) == ~feed.moderate_imported_videos

\* Responses of a receiver that are Video querysets: Video.objects.none(),
\* and the to_publish queryset it was sent, handed back as it is.
EmptyQuerySet == "<QuerySet: none>"
SameQuerySet == "<QuerySet: to_publish>"
QuerySets == {EmptyQuerySet, SameQuerySet}

\* run, line 148: 'if response'.  A queryset is true if it has a row, any
\* other response by Truthy.
IsTrue(response, to_publish) ==
    IF response = EmptyQuerySet THEN FALSE
    ELSE IF response = SameQuerySet THEN to_publish # {}
    ELSE Truthy(response)

\* run, lines 143-166.  A truthy response of a receiver reaches line 150,
\* where models.Queryset is no attribute of django.db.models: AttributeError
\* leaves run.
Publish(i) ==
    /\ At(i, "publish")
    /\ IF ~ShouldPublish(Feed(i))
       THEN /\ imports' = [imports EXCEPT ![i].pc = "moderate"]
            /\ UNCHANGED << videos, sent >>
       ELSE LET to_publish == StepVideos(i, UNPUBLISHED)
                pre == Signal("pre_feed_import_publish", i, to_publish)
            IN  IF \E k \in 1..Len(receivers) :
                      IsTrue(receivers[k], to_publish)
                THEN /\ imports' = [imports EXCEPT ![i].pc = "crashed"]
                     /\ sent' = Append(sent, pre)
                     /\ UNCHANGED videos
                ELSE /\ videos' = UpdateStatus(to_publish, PUBLISHED)
                     /\ LET published ==
                              { v \in videos' :
                                  /\ v.status = PUBLISHED
                                  /\ v.published_datetime = now
                                  /\ \E k \in 1..Len(steps) :
                                        /\ steps[k].feed_import = i
                                        /\ steps[k].video = v.id }
                        IN  sent' = sent \o
                               << pre, Signal("post_feed_import_publish",
                                              i, published) >>
                     /\ imports' = [imports EXCEPT ![i].pc = "moderate"]
    /\ UNCHANGED << feeds, source, receivers, steps, identifiers, yielded,
                    now, answer >>

\* run, lines 168-170
Moderate(i) ==
    /\ At(i, "moderate")
    /\ videos' = UpdateStatus(StepVideos(i, UNPUBLISHED), NEEDS_MODERATION)
    /\ imports' = [imports EXCEPT ![i].pc = "complete"]
    /\ UNCHANGED << feeds, source, receivers, steps, identifiers, sent,
                    yielded, now, answer >>

\* run, lines 171-172
Complete(i) ==
    /\ At(i, "complete")
    /\ imports' = [imports EXCEPT ![i] =
          save([imports[i] EXCEPT !.is_complete = TRUE, !.pc = "done"])]
    /\ UNCHANGED << feeds, source, receivers, steps, videos, identifiers,
                    sent, yielded, now, answer >>

\* ------------------------------------------------------- specification
\* run has returned or raised.
Ended(i) == imports[i].pc \in {"done", "returned", "crashed"}

\* One feed, imported again and again with no two runs overlapping (and no
\* run started once the remote side has nothing more to yield), no
\* receiver connected to pre_feed_import_publish (the repository connects
\* none).  The operator's settings of the feed are free.
Init ==
    /\ \E stop \in BOOLEAN, moderate \in BOOLEAN :
          feeds = [f \in Feeds |->
                     IF f = "f1" THEN NewFeed("u1", stop, moderate)
                     ELSE NewFeed("u2", TRUE, FALSE)]
    /\ source = [f \in Feeds |-> IteratorHeader("e1", NULL, "T", "w", None)]
    /\ receivers = << >>
    /\ imports = << >>
    /\ steps = << >>
    /\ videos = {}
    /\ identifiers = << >>
    /\ sent = << >>
    /\ yielded = 0
    /\ now = 1
    /\ answer = << >>

StartSequential ==
    /\ yielded < MaxItems
    /\ \A j \in 1..Len(imports) : Ended(j)
    /\ start_import("f1")

Run(i) ==
    \/ OpenFeed(i) \/ OpenFeedFails(i)
    \/ IterYield(i) \/ IterStop(i) \/ IterRaises(i)
    \/ CheckSeen(i) \/ Build(i) \/ BuildInvalid(i)
    \/ SaveVideo(i) \/ SaveM2M(i) \/ SaveM2MFails(i)
    \/ MarkSeen(i) \/ MarkSeenFails(i) \/ ItemFails(i)
    \/ Publish(i) \/ Moderate(i) \/ Complete(i)

Next == StartSequential \/ \E i \in 1..MaxRuns : Run(i)

Spec == Init /\ [][Next]_vars

\* is_seen and mark_seen called directly, for either feed, on records that
\* also cover files = None, a value met in two attributes of one record and
\* a link that is another record's guid.
SampleVideos ==
    RemoteVideos \cup
    { RemoteVideo("a", "a", "", "", NoFiles),
      RemoteVideo("", "b", None, "", Files(<< >>)),
      RemoteVideo(None, None, "", "", NoFiles) }

CallMarkSeen(f, r) ==
    /\ Len(identifiers) < MaxRows
    /\ identifiers' = identifiers \o mark_seen(f, r)
    /\ answer' = << >>
    /\ UNCHANGED << feeds, source, receivers, imports, steps, videos, sent,
                    yielded, now >>

CallIsSeen(f, r) ==
    /\ answer' = << [feed |-> f, vidscraper_video |-> r,
                     seen |-> is_seen(identifiers, f, r)] >>
    /\ UNCHANGED << feeds, source, receivers, imports, steps, videos,
                    identifiers, sent, yielded, now >>

InitSeen ==
    /\ feeds = [f \in Feeds |-> NewFeed(f, TRUE, FALSE)]
    /\ source = [f \in Feeds |-> IteratorHeader("e1", NULL, "T", "w", None)]
    /\ receivers = << >>
    /\ imports = << >>
    /\ steps = << >>
    /\ videos = {}
    /\ identifiers = << >>
    /\ sent = << >>
    /\ yielded = 0
    /\ now = 1
    /\ answer = << >>

NextSeen ==
    \E f \in Feeds, r \in SampleVideos : CallMarkSeen(f, r) \/ CallIsSeen(f, r)

SpecSeen == InitSeen /\ [][NextSeen]_vars

\* A running process goes on to its next statement.
Fairness == \A i \in 1..MaxRuns : WF_vars(Run(i))

SpecFair == Init /\ [][Next]_vars /\ Fairness

\* ----------------------------------------------------------- properties
Imports == 1..Len(imports)
StepsOf(i) == { k \in 1..Len(steps) : steps[k].feed_import = i }
CountSteps(i, types) ==
    Cardinality({ k \in StepsOf(i) : steps[k].step_type \in types })

\* The step the transition appends for import i, if it appends one.
Appends(i) ==
    /\ Len(steps') = Len(steps) + 1
    /\ steps'[Len(steps')].feed_import = i
Appended == steps'[Len(steps')]

\* The statements of the loop body, between the iterator yielding a record
\* and the end of the pass.
ItemPcs == {"load", "build", "save", "save_m2m", "mark_seen"}

\* C1: when get_iterator, load or update_metadata raises, exactly one
\* 'import errored' step is recorded, no record is processed, and run still
\* ends with is_complete = True stored, together with its error_count.
C1_OpenFailureStillCompletes ==
    \A i \in Imports :
        (\E k \in StepsOf(i) : steps[k].traceback = "get_iterator") =>
            /\ CountSteps(i, {IMPORT_ERRORED}) = 1
            /\ imports[i].position = 0
            /\ Ended(i) => /\ imports[i].db.is_complete
                           /\ imports[i].db.error_count = 1

\* C2: once the iterator is open, whatever records it yields and whatever
\* fails on them, run goes on to set is_complete and store it; is_complete
\* is False, in the instance and in the row, at every earlier point; and
\* once it is set run changes nothing more: neither the import nor its
\* steps.
C2_RunCompletesOnce ==
    /\ \A i \in 1..MaxRuns :
          At(i, "next") ~> (At(i, "done") /\ imports[i].db.is_complete)
    /\ [](\A i \in Imports :
             (imports[i].is_complete \/ imports[i].db.is_complete) =>
                 At(i, "done"))
    /\ [][\A i \in Imports :
             imports[i].is_complete =>
                 /\ imports'[i] = imports[i]
                 /\ StepsOf(i)' = StepsOf(i)]_vars

\* A run completed although a record of it failed.
C2_Witness ==
    \E i \in Imports :
        /\ At(i, "done") /\ imports[i].db.is_complete
        /\ CountSteps(i, {VIDEO_ERRORED}) > 0

C4_FailedAttachmentLeavesNoRow ==
    /\ [](\A v \in videos :
             ~v.m2m_saved =>
                 \E i \in Imports :
                     At(i, "save_m2m") /\ imports[i].video = << v >>)
    /\ [][\A i \in Imports :
             (/\ At(i, "save_m2m")
              /\ imports'[i].pc \notin {"save_m2m", "mark_seen"}) =>
                 /\ \A v \in videos' : v.id # imports[i].video[1].id
                 /\ Appends(i)
                 /\ Appended = StepRow(i, VIDEO_ERRORED, NULL, "save_m2m")
                 /\ imports'[i].import_count = imports[i].import_count
                 /\ identifiers' = identifiers]_vars

\* save_m2m has raised in some run.
C4_Witness ==
    \E k \in 1..Len(steps) :
        steps[k].step_type = VIDEO_ERRORED /\ steps[k].traceback = "save_m2m"

ImportedBy(i) ==
    { v \in videos :
        \E k \in StepsOf(i) :
            steps[k].step_type = VIDEO_IMPORTED /\ steps[k].video = v.id }
Imported == UNION { ImportedBy(i) : i \in Imports }

\* The values that identify a remote record: its guid, link, flash
\* enclosure url, embed code and the urls of its files that do not expire,
\* those that are empty or None left out; and their digests.
IdentifyingValues(r) ==
    ({ r.guid, r.link, r.flash_enclosure_url, r.embed_code }
        \cup (IF r.files.is_none THEN {}
              ELSE { f.url : f \in { x \in Range(r.files.list) :
                                       ~x.expires } }))
    \ { None, "" }
Fingerprints(r) == { sha1(x) : x \in IdentifyingValues(r) }
SharesFingerprint(r1, r2) == Fingerprints(r1) \cap Fingerprints(r2) # {}

\* C6: over runs of one feed that do not overlap, identifier rows are only
\* added; a record that shares a fingerprint with one already imported for
\* the feed is recorded as 'video seen' once it has loaded and been looked
\* up (as 'video errored' if that raises) and no Video is built for it; so
\* no two Videos imported for a feed come from records that share a
\* fingerprint.
C6_ImportedOnce ==
    /\ [][/\ Len(identifiers') >= Len(identifiers)
          /\ SubSeq(identifiers', 1, Len(identifiers)) = identifiers]_vars
    /\ [][\A i \in Imports :
             (/\ At(i, "load")
              /\ imports'[i].pc # "load"
              /\ \E v \in Imported :
                    /\ v.feed = imports[i].feed
                    /\ SharesFingerprint(v.item, Item(i))) =>
                 /\ imports'[i].pc \in {"next", "publish"}
                 /\ videos' = videos
                 /\ Appends(i)
                 /\ IF Appended.traceback = ""
                    THEN Appended.step_type = VIDEO_SEEN
                    ELSE Appended.step_type = VIDEO_ERRORED]_vars
    /\ [](\A v1 \in Imported, v2 \in Imported :
             (v1.id # v2.id /\ v1.feed = v2.feed) =>
                 ~SharesFingerprint(v1.item, v2.item))

\* A second import of the feed saw a record that the first had imported.
C6_Witness ==
    /\ Len(imports) = 2
    /\ CountSteps(1, {VIDEO_IMPORTED}) > 0
    /\ CountSteps(2, {VIDEO_SEEN}) > 0
    /\ At(2, "done")

\* C7: is_seen answers True exactly when the record has a fingerprint and
\* one of its fingerprints is recorded for the feed asked about; rows of
\* other feeds do not count.
C7_SeenIffRecordedForFeed ==
    answer # << >> =>
        LET f == answer[1].feed
            r == answer[1].vidscraper_video
        IN  answer[1].seen <=>
                /\ Fingerprints(r) # {}
                /\ \E k \in 1..Len(identifiers) :
                      /\ identifiers[k].feed = f
                      /\ identifiers[k].identifier_hash \in Fingerprints(r)

\* is_seen answered False for a record of which only another feed has a
\* fingerprint recorded.
C7_Witness ==
    /\ answer # << >>
    /\ ~answer[1].seen
    /\ \E k \in 1..Len(identifiers) :
          /\ identifiers[k].feed # answer[1].feed
          /\ identifiers[k].identifier_hash \in
                 Fingerprints(answer[1].vidscraper_video)

C9_PublishedWithDatetime ==
    \A i \in Imports :
        (/\ At(i, "done")
         /\ ~Feed(i).moderate_imported_videos
         /\ receivers = << >>) =>
            \A v \in ImportedBy(i) :
                v.status = PUBLISHED /\ v.published_datetime # NULL

\* C10: with moderate_imported_videos on, no Video of the feed is ever
\* 'published', no publish signal is sent by a run of the feed, and every
\* Video a complete run imported is 'needs moderation'.
C10_ModeratedNeverPublished ==
    /\ \A v \in videos :
          feeds[v.feed].moderate_imported_videos => v.status # PUBLISHED
    /\ \A k \in 1..Len(sent) :
          ~Feed(sent[k].sender).moderate_imported_videos
    /\ \A i \in Imports :
          (At(i, "done") /\ Feed(i).moderate_imported_videos) =>
              \A v \in ImportedBy(i) : v.status = NEEDS_MODERATION

\* A complete run of a moderated feed that imported a Video.
C10_Witness ==
    \E i \in Imports :
        /\ At(i, "done")
        /\ Feed(i).moderate_imported_videos
        /\ ImportedBy(i) # {}

\* C11: once every run is complete, no Video row is left 'unpublished':
\* each row a run saved and did not delete is 'published' or 'needs
\* moderation', also the row of a record whose processing failed after the
\* row was saved and attached.
C11_NoUnpublishedAfterComplete ==
    (\A i \in Imports : At(i, "done")) =>
        \A v \in videos : v.status # UNPUBLISHED

\* The fingerprints recorded for a feed.
Recorded(feed) ==
    { identifiers[n].identifier_hash :
        n \in { m \in 1..Len(identifiers) : identifiers[m].feed = feed } }

C13_NoFingerprintNeverSeen ==
    /\ [](\A f \in Feeds, r \in SampleVideos :
             Fingerprints(r) = {} =>
                 /\ get_identifier_hashes(r) = << >>
                 /\ ~is_seen(identifiers, f, r)
                 /\ mark_seen(f, r) = << >>)
    /\ [][\A i \in Imports :
             (/\ At(i, "load")
              /\ Fingerprints(Item(i)) = {}
              /\ imports'[i].pc # "load") =>
                 \/ imports'[i].pc = "build"
                 \/ /\ Appends(i)
                    /\ Appended = StepRow(i, VIDEO_ERRORED, NULL, "load")]_vars
    /\ [][\A i \in Imports :
             (/\ At(i, "mark_seen")
              /\ Fingerprints(Item(i)) = {}) =>
                 identifiers' = identifiers]_vars

\* Two complete runs of a feed with stop_if_seen each imported the record
\* that nothing identifies.
C13_Witness ==
    /\ feeds["f1"].stop_if_seen
    /\ Len(imports) = 2
    /\ At(1, "done") /\ At(2, "done")
    /\ \E v1 \in ImportedBy(1), v2 \in ImportedBy(2) :
          /\ v1.id # v2.id
          /\ v1.item = v2.item
          /\ Fingerprints(v1.item) = {}

\* Two records have an identifying value in common.
SharesValue(r1, r2) == IdentifyingValues(r1) \cap IdentifyingValues(r2) # {}

\* C14 as stated: for every feed F and every record R, is_seen(F, R) is
\* True on the table mark_seen(F, R) leaves.
C14_MarkedThenSeen_AllRecords ==
    [][\A f \in Feeds, r \in SampleVideos :
          CallMarkSeen(f, r) => is_seen(identifiers', f, r)]_vars

\* C14, for records that have a fingerprint: on the table mark_seen(F, R)
\* leaves, is_seen(F, R) is True, and so is is_seen(F, R2) for every R2
\* that has an identifying value in common with R; and an answer of True
\* stays True whatever is marked later.
C14_MarkedThenSeen ==
    /\ [][\A f \in Feeds, r \in SampleVideos :
             (CallMarkSeen(f, r) /\ Fingerprints(r) # {}) =>
                 /\ is_seen(identifiers', f, r)
                 /\ \A r2 \in SampleVideos :
                       SharesValue(r, r2) => is_seen(identifiers', f, r2)]_vars
    /\ [][\A f \in Feeds, r \in SampleVideos :
             is_seen(identifiers, f, r) => is_seen(identifiers', f, r)]_vars

\* is_seen answered True for a record whose guid is not recorded for the
\* feed: another of its values is, marked with another record.
C14_Witness ==
    /\ answer # << >>
    /\ answer[1].seen
    /\ Truthy(answer[1].vidscraper_video.guid)
    /\ sha1(answer[1].vidscraper_video.guid) \notin Recorded(answer[1].feed)

\* The table ends with the rows given.
EndsWith(table, rows) ==
    /\ Len(rows) <= Len(table)
    /\ SubSeq(table, Len(table) - Len(rows) + 1, Len(table)) = rows

\* C15: calling mark_seen(F, R) a second time changes no answer of is_seen:
\* on every table, for every feed F2 and record Q, is_seen(F2, Q) is the
\* same after two calls of mark_seen(F, R) as after one; and a call of
\* mark_seen(F, R) on a table that ends with the rows of an earlier such
\* call appends its rows again and changes no answer.
C15_MarkSeenIdempotent ==
    /\ [](\A f \in Feeds, r \in SampleVideos :
             LET once == identifiers \o mark_seen(f, r)
                 twice == once \o mark_seen(f, r)
             IN  \A f2 \in Feeds, q \in SampleVideos :
                     is_seen(twice, f2, q) = is_seen(once, f2, q))
    /\ [][\A f \in Feeds, r \in SampleVideos :
             (/\ CallMarkSeen(f, r)
              /\ EndsWith(identifiers, mark_seen(f, r))) =>
                 /\ identifiers' = identifiers \o mark_seen(f, r)
                 /\ \A f2 \in Feeds, q \in SampleVideos :
                       is_seen(identifiers', f2, q) =
                           is_seen(identifiers, f2, q)]_vars

\* is_seen answered True on a table in which the fingerprint that makes the
\* record seen is recorded twice for the feed.
C15_Witness ==
    /\ answer # << >>
    /\ answer[1].seen
    /\ \E k \in 1..Len(identifiers), m \in 1..Len(identifiers) :
          /\ k # m
          /\ identifiers[k] = identifiers[m]
          /\ identifiers[k].feed = answer[1].feed
          /\ identifiers[k].identifier_hash \in
                 Fingerprints(answer[1].vidscraper_video)

\* What a receiver of pre_feed_import_publish can hand back through
\* send_robust, other than a queryset: nothing, the exception it raised, a
\* value of another type.
Responses == {None, "<Exception>", "<str>"}

\* As Init, for a feed that publishes what it imports, with one receiver
\* connected to pre_feed_import_publish.
InitObservers ==
    /\ \E stop \in BOOLEAN :
          feeds = [f \in Feeds |->
                     IF f = "f1" THEN NewFeed("u1", stop, FALSE)
                     ELSE NewFeed("u2", TRUE, FALSE)]
    /\ source = [f \in Feeds |-> IteratorHeader("e1", NULL, "T", "w", None)]
    /\ \E response \in Responses \cup QuerySets :
          receivers = << response >>
    /\ imports = << >>
    /\ steps = << >>
    /\ videos = {}
    /\ identifiers = << >>
    /\ sent = << >>
    /\ yielded = 0
    /\ now = 1
    /\ answer = << >>

SpecObservers == InitObservers /\ [][Next]_vars

\* C16: a receiver of pre_feed_import_publish that raises, or returns what
\* is no Video queryset, does not make run fail: a run whose iterator
\* opened ends complete, with the Videos it imported published.
C16_BadObserverIgnored ==
    \A i \in Imports :
        (/\ Ended(i)
         /\ ~At(i, "returned")
         /\ \E k \in 1..Len(receivers) : receivers[k] \in Responses \ {None}) =>
            /\ At(i, "done")
            /\ imports[i].db.is_complete
            /\ \A v \in ImportedBy(i) : v.status = PUBLISHED

\* ------------------------------------- from_vidscraper_video on its own
\* The values of Video.status, and None for a status not given.
StatusArgs == {None, UNPUBLISHED, NEEDS_MODERATION, PUBLISHED, HIDDEN}

\* Video.from_vidscraper_video(r, status=status, commit=commit, feed=f1),
\* lines 386-443: with commit the instance is saved and its save_m2m
\* called, without it the unsaved instance is returned.
CallFromVidscraperVideo(r, status, commit) ==
    /\ Cardinality(videos) < MaxVideos
    /\ LET instance == from_vidscraper_video(r, status, "f1")
           row == [instance EXCEPT !.id = NextVideoId, !.m2m_saved = TRUE]
           returned == IF commit THEN row ELSE instance
       IN  /\ videos' = IF commit THEN videos \cup { row } ELSE videos
           /\ answer' = << [status |-> status, commit |-> commit,
                            vidscraper_video |-> r, at |-> now,
                            instance |-> returned] >>
    /\ UNCHANGED << feeds, source, receivers, imports, steps, identifiers,
                    sent, yielded, now >>

\* instance.save() on the instance returned with commit=False.
CallSave ==
    /\ answer # << >>
    /\ answer[1].instance.id = NULL
    /\ LET row == [answer[1].instance EXCEPT !.id = NextVideoId]
       IN  /\ videos' = videos \cup { row }
           /\ answer' = << [answer[1] EXCEPT !.instance = row] >>
    /\ UNCHANGED << feeds, source, receivers, imports, steps, identifiers,
                    sent, yielded, now >>

\* instance.save_m2m() on that instance, once it is saved.
CallSaveM2M ==
    /\ answer # << >>
    /\ answer[1].instance.id # NULL
    /\ ~answer[1].instance.m2m_saved
    /\ LET row == [answer[1].instance EXCEPT !.m2m_saved = TRUE]
       IN  /\ videos' = (videos \ { answer[1].instance }) \cup { row }
           /\ answer' = << [answer[1] EXCEPT !.instance = row] >>
    /\ UNCHANGED << feeds, source, receivers, imports, steps, identifiers,
                    sent, yielded, now >>

\* Time passes.
Tick ==
    /\ now < MaxNow
    /\ now' = now + 1
    /\ UNCHANGED << feeds, source, receivers, imports, steps, videos,
                    identifiers, sent, yielded, answer >>

NextVideo ==
    \/ \E r \in RemoteVideos, status \in StatusArgs, commit \in BOOLEAN :
          CallFromVidscraperVideo(r, status, commit)
    \/ CallSave
    \/ CallSaveM2M
    \/ Tick

SpecVideo == InitSeen /\ [][NextVideo]_vars

\* C17: the instance from_vidscraper_video returns has the status given,
\* 'needs moderation' if none was; its published_datetime is the time of
\* the call if that status is 'published' and NULL otherwise; with
\* commit=False no row is written and nothing attached by the call, and
\* sites and files get attached only by save_m2m (within the call itself
\* when commit is True).
C17_FromVidscraperVideo ==
    /\ [](answer # << >> =>
             LET a == answer[1]
                 v == a.instance
             IN  /\ v.status = IF a.status = None THEN NEEDS_MODERATION
                                ELSE a.status
                 /\ v.published_datetime = IF v.status = PUBLISHED THEN a.at
                                           ELSE NULL
                 /\ v.status = PUBLISHED <=> v.published_datetime # NULL
                 /\ v.item = a.vidscraper_video
                 /\ v.id = NULL => ~v.m2m_saved /\ v \notin videos)
    /\ [][(\E r \in RemoteVideos, status \in StatusArgs :
              CallFromVidscraperVideo(r, status, FALSE)) =>
                 /\ videos' = videos
                 /\ answer'[1].instance.id = NULL
                 /\ ~answer'[1].instance.m2m_saved]_vars
    /\ [][\A v \in videos' :
             (v.m2m_saved /\ v \notin videos) =>
                 \/ CallSaveM2M
                 \/ \E r \in RemoteVideos, status \in StatusArgs :
                       CallFromVidscraperVideo(r, status, TRUE)]_vars

\* An instance built as 'published' with commit=False, saved and attached
\* at a later time.
C17_Witness ==
    /\ answer # << >>
    /\ ~answer[1].commit
    /\ answer[1].instance.m2m_saved
    /\ answer[1].instance.status = PUBLISHED
    /\ answer[1].at < now

\* The statements of run after its loop.
FinalizePcs == {"publish", "moderate", "complete", "done"}

\* C18: when the iterator raises between two records, one 'import errored'
\* step is recorded and error_count incremented, the loop is left and the
\* finalize phase entered; that step stays the last of its run, so no
\* further record is processed, and when the run is done it is complete
\* and the Videos it imported before are 'published', or 'needs
\* moderation' for a moderated feed.
C18_IteratorFailureFinalizes ==
    /\ [][\A i \in Imports :
             (At(i, "next") /\ Appends(i)) =>
                 /\ Appended = StepRow(i, IMPORT_ERRORED, NULL, "next")
                 /\ imports'[i].pc = "publish"
                 /\ imports'[i].error_count = imports[i].error_count + 1
                 /\ imports'[i].position = imports[i].position
                 /\ videos' = videos]_vars
    /\ [](\A i \in Imports :
             \A k \in StepsOf(i) :
                 (/\ steps[k].step_type = IMPORT_ERRORED
                  /\ steps[k].traceback = "next") =>
                     /\ \A m \in StepsOf(i) : m <= k
                     /\ CountSteps(i, {IMPORT_ERRORED}) = 1
                     /\ imports[i].pc \in FinalizePcs
                     /\ imports[i].position =
                            CountSteps(i, {VIDEO_SEEN, VIDEO_ERRORED,
                                           VIDEO_IMPORTED})
                     /\ imports[i].pc # "done" => ENABLED Run(i)
                     /\ At(i, "done") =>
                           /\ imports[i].db.is_complete
                           /\ imports[i].db.error_count =
                                  CountSteps(i, {IMPORT_ERRORED,
                                                 VIDEO_ERRORED})
                           /\ \A v \in ImportedBy(i) :
                                 v.status =
                                     IF Feed(i).moderate_imported_videos
                                     THEN NEEDS_MODERATION ELSE PUBLISHED)

\* A complete run whose iterator raised after a record had been imported.
C18_Witness ==
    \E i \in Imports :
        /\ At(i, "done")
        /\ ImportedBy(i) # {}
        /\ \E k \in StepsOf(i) :
              /\ steps[k].step_type = IMPORT_ERRORED
              /\ steps[k].traceback = "next"

\* C19: the FeedImport is saved at the end of every pass of the loop,
\* whatever became of the record (imported, errored or seen): when run
\* leaves the loop body, its stored row has the counters of the instance
\* and a modified_timestamp of that moment.
C19_SavedAfterEveryItem ==
    [][\A i \in Imports :
          (imports[i].pc \in ItemPcs /\ imports'[i].pc \notin ItemPcs) =>
              /\ imports'[i].db.error_count = imports'[i].error_count
              /\ imports'[i].db.import_count = imports'[i].import_count
              /\ imports'[i].db.modified_timestamp = now']_vars

\* C20: run writes identifier rows for a record only at mark_seen, when the
\* Video built from that record is saved and its save_m2m has completed,
\* and the rows written are fingerprints of that record for that feed; a
\* record that ends as 'video seen', or as 'video errored' before
\* mark_seen, writes none; so every identifier row has a saved and
\* attached Video of the same feed that carries its fingerprint.
C20_FingerprintsAfterPersisted ==
    /\ [][identifiers' # identifiers =>
             \E i \in Imports :
                 /\ At(i, "mark_seen")
                 /\ \E v \in videos :
                       /\ v.id = imports[i].video[1].id
                       /\ v.m2m_saved
                       /\ v.feed = imports[i].feed
                       /\ v.item = Item(i)
                 /\ \E n \in 1..Len(mark_seen(imports[i].feed, Item(i))) :
                       identifiers' = identifiers \o
                           SubSeq(mark_seen(imports[i].feed, Item(i)), 1, n)]_vars
    /\ [][\A i \in Imports :
             (/\ Appends(i)
              /\ \/ Appended.step_type = VIDEO_SEEN
                 \/ /\ Appended.step_type = VIDEO_ERRORED
                    /\ Appended.traceback # "mark_seen") =>
                 identifiers' = identifiers]_vars
    /\ [](\A k \in 1..Len(identifiers) :
             \E v \in videos :
                 /\ v.feed = identifiers[k].feed
                 /\ v.m2m_saved
                 /\ identifiers[k].identifier_hash \in Fingerprints(v.item))

\* A record was imported and its fingerprints recorded, and another record
\* was seen.
C20_Witness ==
    /\ identifiers # << >>
    /\ \E k \in 1..Len(steps) : steps[k].step_type = VIDEO_SEEN
    /\ \E i \in Imports : At(i, "done") /\ ImportedBy(i) # {}

\* The Video rows of a run: those it has a 'video imported' step for, and
\* the row it has saved for the record in hand.
RowsOf(i) ==
    ImportedBy(i) \cup
    { v \in videos : /\ imports[i].video # << >>
                     /\ v.id # NULL
                     /\ v.id = imports[i].video[1].id }

\* The statements of run up to the end of its loop.
LoopPcs == {"get_iterator", "next"} \cup ItemPcs

\* C21: every Video row a run creates is 'unpublished' with
\* published_datetime NULL; while the loop runs, every row of the run is
\* 'unpublished'; and a row becomes 'published' only by the finalize phase
\* of the run that imported it.
C21_UnpublishedUntilFinalize ==
    /\ [][\A w \in videos' :
             (\A v \in videos : v.id # w.id) =>
                 w.status = UNPUBLISHED /\ w.published_datetime = NULL]_vars
    /\ [](\A i \in Imports :
             imports[i].pc \in LoopPcs =>
                 \A v \in RowsOf(i) : v.status = UNPUBLISHED)
    /\ [][\A v \in videos, w \in videos' :
             (v.id = w.id /\ v.status # PUBLISHED /\ w.status = PUBLISHED) =>
                 \E i \in Imports :
                     /\ At(i, "publish")
                     /\ imports'[i].pc = "moderate"
                     /\ v \in ImportedBy(i)]_vars

\* The first run has published what it imported; the second is in its loop
\* with a row saved, which is 'unpublished'.
C21_Witness ==
    /\ Len(imports) = 2
    /\ \E v \in ImportedBy(1) : v.status = PUBLISHED
    /\ imports[2].pc \in ItemPcs
    /\ \E v \in RowsOf(2) : v.status = UNPUBLISHED

\* C22: when the receiver of pre_feed_import_publish returns a Video
\* queryset, run publishes exactly that set: with the empty queryset
\* nothing is published and every Video the run imported ends 'needs
\* moderation'; with the queryset it was sent, all of them end
\* 'published'; and the run completes.
C22_ReplacementSetPublished ==
    \A i \in Imports :
        (/\ Ended(i)
         /\ ~At(i, "returned")
         /\ Len(receivers) = 1
         /\ receivers[1] \in QuerySets) =>
            /\ At(i, "done")
            /\ \A v \in ImportedBy(i) :
                  v.status = IF receivers[1] = EmptyQuerySet
                             THEN NEEDS_MODERATION ELSE PUBLISHED

\* A complete run, whose receiver vetoed the batch with an empty queryset,
\* has published what it imported.
C22_VetoIgnored ==
    /\ receivers = << EmptyQuerySet >>
    /\ \E i \in Imports :
          At(i, "done") /\ \E v \in ImportedBy(i) : v.status = PUBLISHED

\* C23: the post_feed_import_publish signal of a run carries exactly the
\* Videos the run has published: those it imported that are 'published'.
C23_AfterPublishCarriesPublished ==
    \A k \in 1..Len(sent) :
        sent[k].signal = "post_feed_import_publish" =>
            sent[k].videos =
                { v.id : v \in { w \in ImportedBy(sent[k].sender) :
                                   w.status = PUBLISHED } }

\* ------------------------------------------------ Videos deleted later
\* Video.delete() by other code (the admin, say), between two runs: the
\* row goes and the FeedImportStep that points at it has its video set to
\* NULL.
DeleteVideo(id) ==
    /\ \A j \in 1..Len(imports) : Ended(j)
    /\ videos' = VideosWithout(id)
    /\ steps' = StepsWithout(id)
    /\ UNCHANGED << feeds, source, receivers, imports, identifiers, sent,
                    yielded, now, answer >>

NextDelete == Next \/ \E v \in videos : DeleteVideo(v.id)

SpecDelete == Init /\ [][NextDelete]_vars

\* C24: a step points at a Video only if it is a 'video imported' step,
\* and the Video it points at exists, saved and attached; a 'video
\* imported' step points at such a Video when it is created; no two steps
\* point at the same Video; and steps are never removed or changed, except
\* that deleting a Video sets the video of its step to NULL.
C24_StepVideoReferences ==
    /\ [](\A k \in 1..Len(steps) :
             steps[k].video # NULL =>
                 /\ steps[k].step_type = VIDEO_IMPORTED
                 /\ \E v \in videos : v.id = steps[k].video /\ v.m2m_saved)
    /\ [](\A k \in 1..Len(steps), m \in 1..Len(steps) :
             (k # m /\ steps[k].video # NULL) =>
                 steps[k].video # steps[m].video)
    /\ [][\A i \in Imports :
             (Appends(i) /\ Appended.step_type = VIDEO_IMPORTED) =>
                 /\ Appended.video # NULL
                 /\ \E v \in videos :
                       v.id = Appended.video /\ v.m2m_saved /\ v \in videos']_vars
    /\ [][/\ Len(steps') >= Len(steps)
          /\ \A k \in 1..Len(steps) :
                \/ steps'[k] = steps[k]
                \/ /\ steps'[k] = [steps[k] EXCEPT !.video = NULL]
                   /\ \A v \in videos' : v.id # steps[k].video]_vars

\* The Video of a 'video imported' step has been deleted: the step is
\* there, pointing at nothing.
C24_Witness ==
    \E k \in 1..Len(steps) :
        steps[k].step_type = VIDEO_IMPORTED /\ steps[k].video = NULL

\* ------------------------------------------------- runs that overlap
\* Feed.start_import called by two processes that do not wait for each
\* other: nothing in start_import or run keeps a second run of the feed
\* from starting while the first is under way.  Both have saved their
\* FeedImport and are about to call run().
InitConcurrent ==
    /\ feeds = [f \in Feeds |-> NewFeed(f, FALSE, FALSE)]
    /\ source = [f \in Feeds |-> IteratorHeader("e1", NULL, "T", "w", None)]
    /\ receivers = << >>
    /\ now = 1
    /\ imports = << NewImport("f1"), NewImport("f1") >>
    /\ steps = << >>
    /\ videos = {}
    /\ identifiers = << >>
    /\ sent = << >>
    /\ yielded = 0
    /\ answer = << >>

NextConcurrent == \E i \in 1..MaxRuns : Run(i)

SpecConcurrent == InitConcurrent /\ [][NextConcurrent]_vars

SpecConcurrentFair == InitConcurrent /\ [][NextConcurrent]_vars /\ Fairness

\* C25: two runs of one feed whose steps interleave are not kept apart, yet
\* each of them, once its iterator is open, goes on to complete, and the
\* counters a completed run has stored equal the numbers of its own steps,
\* whatever the other run recorded.
C25_OverlappingRunsComplete ==
    /\ \A i \in 1..MaxRuns : At(i, "next") ~> At(i, "done")
    /\ [](\A i \in Imports :
             At(i, "done") =>
                 /\ imports[i].db.is_complete
                 /\ imports[i].db.import_count =
                        CountSteps(i, {VIDEO_IMPORTED})
                 /\ imports[i].db.error_count =
                        CountSteps(i, {VIDEO_ERRORED, IMPORT_ERRORED}))

\* Both runs are complete, each imported the same remote record into a
\* Video row of its own, and a fingerprint of that record is stored twice
\* for the feed.
C25_Witness ==
    /\ At(1, "done") /\ At(2, "done")
    /\ \E v1 \in ImportedBy(1), v2 \in ImportedBy(2) :
          /\ v1.id # v2.id
          /\ v1.item = v2.item
          /\ \E h \in Fingerprints(v1.item) :
                Cardinality({ k \in 1..Len(identifiers) :
                                identifiers[k] = IdentifierRow("f1", h) }) >= 2

\* ------------------------------------- runs beside other runs and rows
\* A Video row made by hand, not by an import: no step points at it.
ManualVideo ==
    [id |-> 1, feed |-> None, status |-> UNPUBLISHED,
     published_datetime |-> NULL,
     item |-> RemoteVideo(None, None, "", "", NoFiles), m2m_saved |-> TRUE]

\* Two runs whose steps interleave, of one feed or of two feeds that yield
\* the same records, beside a Video row made by hand; f1 publishes what it
\* imports, f2 holds it for moderation; no receiver is connected.
InitBeside ==
    /\ feeds = [f \in Feeds |-> NewFeed(f, FALSE, f = "f2")]
    /\ source = [f \in Feeds |-> IteratorHeader("e1", NULL, "T", "w", None)]
    /\ receivers = << >>
    /\ now = 1
    /\ \E g \in Feeds : imports = << NewImport("f1"), NewImport(g) >>
    /\ steps = << >>
    /\ videos = {ManualVideo}
    /\ identifiers = << >>
    /\ sent = << >>
    /\ yielded = 0
    /\ answer = << >>

SpecBeside == InitBeside /\ [][NextConcurrent]_vars

\* The identifier rows stored for a feed, in order.
RowsFor(feed) ==
    LET OfFeed(row) == row.feed = feed
    IN  SelectSeq(identifiers, OfFeed)

\* The Videos a step of import i points at.
LinkedTo(i) ==
    { v \in videos : \E k \in StepsOf(i) : steps[k].video = v.id }

\* C26: with no receiver connected, a step of the finalize phase of a run
\* changes the status of no Video but those its own steps point at, and
\* adds or removes no Video: the Videos of other runs, of the same feed or
\* another, finished or still running, and Videos made by hand are left as
\* they are.  The identifier rows a run adds carry its own feed, and
\* whether a run takes a record for seen depends on the rows of its own
\* feed alone.
C26_FinalizeTouchesOwnVideos ==
    [][\A i \in Imports :
          imports'[i] # imports[i] =>
             /\ imports[i].pc \in {"publish", "moderate", "complete"} =>
                   /\ { v.id : v \in videos' } = { v.id : v \in videos }
                   /\ \A v \in videos \ LinkedTo(i) : v \in videos'
                   /\ identifiers' = identifiers
             /\ /\ SubSeq(identifiers', 1, Len(identifiers)) = identifiers
                /\ \A k \in (Len(identifiers) + 1)..Len(identifiers') :
                      identifiers'[k].feed = imports[i].feed
             /\ imports[i].pc = "load" =>
                   LET seen == is_seen(RowsFor(imports[i].feed),
                                       imports[i].feed, Item(i))
                   IN  /\ imports'[i].pc = "build" => ~seen
                       /\ (Appends(i) /\ Appended.step_type = VIDEO_SEEN)
                             => seen]_vars

\* The run of f2 is complete and holds its Video for moderation; the run of
\* f1, still in its loop, has imported the same record, recorded for f1
\* under the same fingerprint, into a Video that is still 'unpublished',
\* as is the Video made by hand.
C26_Witness ==
    /\ imports[2].feed = "f2" /\ At(2, "done")
    /\ imports[1].pc \in LoopPcs
    /\ ManualVideo \in videos
    /\ \E v1 \in ImportedBy(1), v2 \in ImportedBy(2) :
          /\ v1.item = v2.item
          /\ v1.status = UNPUBLISHED
          /\ v2.status = NEEDS_MODERATION
          /\ Fingerprints(v1.item) \cap Recorded("f1") # {}

\* ------------------------------------------- update_metadata, run by run
\* The header attributes an iterator can carry after load().
Headers ==
    { IteratorHeader(etag, last_modified, title, webpage, description) :
        etag \in {None, "", "e1", "e2"}, last_modified \in {NULL, 1, 2},
        title \in {"T", None}, webpage \in {"w", ""},
        description \in {"D", None} }

\* One run after another opens feed f1 and calls update_metadata with the
\* header its iterator carries; answer keeps the header and whether the
\* call saved the row.
CallUpdateMetadata(iterator) ==
    /\ feeds' = [feeds EXCEPT !["f1"] = update_metadata(@, iterator)]
    /\ answer' = << [iterator |-> iterator,
                     save |-> update_metadata_save(feeds["f1"], iterator)] >>
    /\ UNCHANGED << source, receivers, imports, steps, videos, identifiers,
                    sent, yielded, now >>

NextMetadata == \E iterator \in Headers : CallUpdateMetadata(iterator)

SpecMetadata == InitSeen /\ [][NextMetadata]_vars

\* C27: update_metadata overwrites name, description and web_url with what
\* the iterator carries when should_update_metadata is set, and clears the
\* flag; with the flag clear it leaves the three and the flag as they are,
\* so that only the first of a sequence of runs refreshes them.
\* external_etag changes only to a non-empty etag of the iterator that
\* differs from the stored one, and the row is saved only if the call
\* changed it.
C27_MetadataRefreshedOnce ==
    [][answer' # << >> =>
        LET old == feeds["f1"]
            new == feeds'["f1"]
            iterator == answer'[1].iterator
        IN  /\ old.should_update_metadata =>
                  /\ new.name = (IF Truthy(iterator.title)
                                 THEN iterator.title ELSE old.original_url)
                  /\ new.description = (IF Truthy(iterator.description)
                                        THEN iterator.description ELSE "")
                  /\ new.web_url = (IF Truthy(iterator.webpage)
                                    THEN iterator.webpage ELSE "")
                  /\ ~new.should_update_metadata
            /\ ~old.should_update_metadata =>
                  /\ new.name = old.name
                  /\ new.description = old.description
                  /\ new.web_url = old.web_url
                  /\ ~new.should_update_metadata
            /\ new.external_etag # old.external_etag =>
                  /\ Truthy(iterator.etag)
                  /\ new.external_etag = iterator.etag
            /\ answer'[1].save => new # old]_vars

\* ------------------------------------------------ the operator's summary
\* feed.imports.latest(): the import of the feed created last (rows are
\* created one after another, in the order of imports); 0 if it has none.
latest(feed) ==
    LET of == { i \in 1..Len(imports) : imports[i].feed = feed }
    IN  IF of = {} THEN 0 ELSE CHOOSE i \in of : \A j \in of : j <= i

\* FeedAdmin._message_import_result: the messages it adds, read from the
\* stored row of the feed's latest import.
message_import_result(feed) ==
    LET feed_import == imports[latest(feed)].db
    IN  IF feed_import.is_complete
        THEN (IF feed_import.import_count # 0 \/ feed_import.error_count = 0
              THEN << << "success", feed_import.import_count >> >>
              ELSE << >>)
             \o (IF feed_import.error_count # 0
                 THEN << << "error", feed_import.error_count >> >>
                 ELSE << >>)
        ELSE << >>

\* C28: start_import stores the new import, not complete and with both
\* counters 0, before the feed is fetched; and when it has returned,
\* whatever happened in run, the feed's latest import is that import, it is
\* stored complete, and the summary for the operator has at least one
\* message, with the numbers of its 'video imported' and errored steps.
C28_StartImportLeavesSummary ==
    \A i \in Imports :
        /\ At(i, "get_iterator") =>
              /\ ~imports[i].db.is_complete
              /\ imports[i].db.import_count = 0
              /\ imports[i].db.error_count = 0
        /\ (imports[i].pc \in {"done", "returned"}
              /\ i = latest(imports[i].feed)) =>
              /\ imports[i].db.is_complete
              /\ message_import_result(imports[i].feed) # << >>
              /\ \A m \in Range(message_import_result(imports[i].feed)) :
                    /\ m[1] = "success" =>
                          m[2] = CountSteps(i, {VIDEO_IMPORTED})
                    /\ m[1] = "error" =>
                          m[2] = CountSteps(i, {VIDEO_ERRORED,
                                                IMPORT_ERRORED})

====
